---- MODULE Spec2Model ----
(***************************************************************************)
(* HokuyoDriver (hokuyo_node.cpp): the device lifecycle state machine      *)
(* (doOpen / doClose / doStart / doStop) run by the controlling thread and *)
(* the acquisition loop (scanThread) run by the threads doStart spawns.    *)
(*                                                                         *)
(* A thread that is inside a call of the hokuyo::Laser library (or inside  *)
(* timed_join, or inside the useScan_ callback) sits at a position named   *)
(* after that call; one step of the model is the return of that call with  *)
(* one of its outcomes, followed by the driver's own code up to the entry  *)
(* of the next call.  state_ is a one-byte field read and written by both  *)
(* threads without a lock; its reads and writes are taken one at a time.   *)
(* Every hokuyo::Laser call may return or throw whatever the handle's      *)
(* state is.                                                               *)
(***************************************************************************)
EXTENDS Integers, Sequences, FiniteSets, TLC

\* ---- bound of the model ----
\* start() calls that get as far as the status of requestScans in one run: each of them
\* either creates an acquisition thread or counts a rejected request
MaxStarts == 2

\* ---- driver_base::Driver::state_t ----
CLOSED  == 0
OPENED  == 1
RUNNING == 2
States  == {CLOSED, OPENED, RUNNING}

Threads  == 1..MaxStarts
NoThread == 0       \* an empty scan_thread_ pointer

\* e.what() of a hokuyo::Exception; "" is the empty std::string
Messages == {"e1"}

\* two values of HokuyoConfig, given by the fields the driver and publishScan read
Configs == {[calibrate_time |-> TRUE,  frame_id |-> "laser"],
            [calibrate_time |-> FALSE, frame_id |-> "other"]}

\* no value of HokuyoConfig: no Running session is in progress
NoConfig == [calibrate_time |-> FALSE, frame_id |-> ""]

\* the content of the shared buffer scan_: the thread whose serviceScan call filled it
\* last (NoThread: none yet) and whether that frame has been passed to useScan_
Frames == [by : Threads \cup {NoThread}, used : BOOLEAN]

VARIABLES
  state_,                    \* driver_base::Driver::state_
  port_open,                 \* laser_: TRUE from a successful open() to the next close()
  calibrated_,
  lost_scan_thread_count_,
  corrupted_scan_count_,
  connect_fail_,
  scan_thread_,              \* the thread scan_thread_ points to, or NoThread
  scan_,                     \* the frame in the shared buffer scan_
  config_,
  ctl,                       \* the controlling thread: position, operation, from-state, outcome
  thr,                       \* position of every acquisition thread
  calib_called,              \* laser_.calcLatency has been called on this object
  session_config             \* the Running session's snapshot: config_ as it was when
                             \* doStart wrote RUNNING; NoConfig while state_ is not RUNNING

vars == <<state_, port_open, calibrated_, lost_scan_thread_count_, corrupted_scan_count_,
          connect_fail_, scan_thread_, scan_, config_, ctl, thr, calib_called, session_config>>

drv  == <<state_, port_open, calibrated_, lost_scan_thread_count_, corrupted_scan_count_,
          connect_fail_, scan_thread_, config_>>
acq  == <<thr, scan_>>

Idle == [pc |-> "idle", op |-> "none", from |-> CLOSED, ok |-> TRUE]

\* positions of the controlling thread that are inside a hokuyo::Laser call
CtlDevicePcs == {"laser_open", "getID", "getStatus", "laserOn", "calcLatency",
                 "requestScans", "laser_close"}
CtlPcs == CtlDevicePcs \cup {"idle", "timed_join", "return"}

\* positions of an acquisition thread: inside a hokuyo::Laser call, at the loop test
\* ("loop": on entry and after useScan_; "skip": by the continue of the
\* CorruptedDataException handler), inside useScan_; not created ("none"); ended by the
\* return of the exception handler ("returned") or at the end of scanThread ("done");
\* left by an exception ("uncaught")
ThrDevicePcs == {"serviceScan", "laser_close", "stopScanning"}
ThrLivePcs   == ThrDevicePcs \cup {"loop", "skip", "useScan"}
ThrEndPcs    == {"returned", "done"}
ThrPcs       == ThrLivePcs \cup ThrEndPcs \cup {"none", "uncaught"}

Live(t) == thr[t] \in ThrLivePcs

\* an exception left a thread's body: std::terminate ends the process
Terminated == \E t \in Threads : thr[t] = "uncaught"

\* HokuyoDriver::HokuyoDriver and driver_base::Driver's initial state
Init ==
  /\ state_ = CLOSED
  /\ port_open = FALSE
  /\ calibrated_ = FALSE
  /\ lost_scan_thread_count_ = 0
  /\ corrupted_scan_count_ = 0
  /\ connect_fail_ = ""
  /\ scan_thread_ = NoThread
  /\ scan_ = [by |-> NoThread, used |-> FALSE]
  /\ config_ \in Configs
  /\ ctl = Idle
  /\ thr = [t \in Threads |-> "none"]
  /\ calib_called = FALSE
  /\ session_config = NoConfig

\* ---- the controlling thread ----

At(pc) == ~Terminated /\ ctl.pc = pc

\* the acquisition threads created so far
Created == {t \in Threads : thr[t] # "none"}

\* the thread "new boost::thread" creates: the least one not created yet
NewThread == CHOOSE t \in Threads \ Created : \A u \in Threads \ Created : t <= u

\* doClose that releases the handle and leaves state_ as it is
doCloseBody_keepsState ==
  /\ port_open' = FALSE
  /\ UNCHANGED <<state_, session_config>>

\* the body of doClose: laser_.close() returns or throws (caught and logged); in both
\* cases close() has been called on the handle; then state_ = CLOSED
doCloseBody ==
  /\ port_open' = FALSE
  /\ state_' = CLOSED
  /\ session_config' = NoConfig

\* doClose, entered from the controlling thread: the call of laser_.close() begins
EnterClose(ok) == ctl' = [ctl EXCEPT !.pc = "laser_close", !.ok = ok]

\* a handler that goes to doClose without recording e.what()
Catch_noMessage(m) ==
  /\ UNCHANGED connect_fail_
  /\ EnterClose(FALSE)

\* catch (hokuyo::Exception& e) of doOpen and doStart: record e.what(), doClose(), return
Catch(m) ==
  /\ connect_fail_' = m
  /\ EnterClose(FALSE)

\* open(): the caller's contract is the from-state of the transition table; doOpen begins
\* and enters laser_.open
open ==
  /\ At("idle")
  /\ state_ = CLOSED
  /\ ctl' = [pc |-> "laser_open", op |-> "open", from |-> state_, ok |-> TRUE]
  /\ UNCHANGED <<drv, acq, calib_called, session_config>>

\* laser_.open returns or throws
doOpen_laser_open ==
  /\ At("laser_open")
  /\ \/ /\ port_open' = TRUE
        /\ ctl' = [ctl EXCEPT !.pc = "getID"]
        /\ UNCHANGED connect_fail_
     \/ \E m \in Messages : Catch(m) /\ UNCHANGED port_open
  /\ UNCHANGED <<state_, calibrated_, lost_scan_thread_count_, corrupted_scan_count_,
                 scan_thread_, config_, acq, calib_called, session_config>>

\* getID() returns or throws
doOpen_getID ==
  /\ At("getID")
  /\ \/ ctl' = [ctl EXCEPT !.pc = "getStatus"] /\ UNCHANGED connect_fail_
     \/ \E m \in Messages : Catch(m)
  /\ UNCHANGED <<state_, port_open, calibrated_, lost_scan_thread_count_, corrupted_scan_count_,
                 scan_thread_, config_, acq, calib_called, session_config>>

\* the calibration test without its "not calibrated yet" half
NeedCalibration_ignoresFlag == config_.calibrate_time

\* the calibration test of doOpen
NeedCalibration == config_.calibrate_time /\ ~calibrated_

\* laser_.getStatus() returns or throws; then either the calibration branch is entered
\* (laser_.laserOn) or state_ = OPENED
doOpen_getStatus ==
  /\ At("getStatus")
  /\ \/ /\ NeedCalibration
        /\ ctl' = [ctl EXCEPT !.pc = "laserOn"]
        /\ UNCHANGED <<state_, connect_fail_>>
     \/ /\ ~NeedCalibration
        /\ state_' = OPENED
        /\ ctl' = [ctl EXCEPT !.pc = "return"]
        /\ UNCHANGED connect_fail_
     \/ \E m \in Messages : Catch(m) /\ UNCHANGED state_
  /\ UNCHANGED <<port_open, calibrated_, lost_scan_thread_count_, corrupted_scan_count_,
                 scan_thread_, config_, acq, calib_called, session_config>>

\* laser_.laserOn() of the calibration branch returns or throws; calcLatency is entered
doOpen_laserOn ==
  /\ At("laserOn") /\ ctl.op = "open"
  /\ \/ /\ ctl' = [ctl EXCEPT !.pc = "calcLatency"]
        /\ calib_called' = TRUE
        /\ UNCHANGED connect_fail_
     \/ \E m \in Messages : Catch(m) /\ UNCHANGED calib_called
  /\ UNCHANGED <<state_, port_open, calibrated_, lost_scan_thread_count_, corrupted_scan_count_,
                 scan_thread_, config_, acq, session_config>>

\* laser_.calcLatency returns (calibrated_ = true; state_ = OPENED) or throws
doOpen_calcLatency ==
  /\ At("calcLatency")
  /\ \/ /\ calibrated_' = TRUE
        /\ state_' = OPENED
        /\ ctl' = [ctl EXCEPT !.pc = "return"]
        /\ UNCHANGED connect_fail_
     \/ \E m \in Messages : Catch(m) /\ UNCHANGED <<calibrated_, state_>>
  /\ UNCHANGED <<port_open, lost_scan_thread_count_, corrupted_scan_count_,
                 scan_thread_, config_, acq, calib_called, session_config>>

\* close(): callable in every state; doClose begins and enters laser_.close
close ==
  /\ At("idle")
  /\ ctl' = [pc |-> "laser_close", op |-> "close", from |-> state_, ok |-> TRUE]
  /\ UNCHANGED <<drv, acq, calib_called, session_config>>

\* doClose on the controlling thread, called by close() or by a catch handler
doClose ==
  /\ At("laser_close")
  /\ doCloseBody
  /\ ctl' = [ctl EXCEPT !.pc = "return"]
  /\ UNCHANGED <<calibrated_, lost_scan_thread_count_, corrupted_scan_count_, connect_fail_,
                 scan_thread_, config_, acq, calib_called>>

\* start(): the caller's contract is the from-state of the transition table; doStart begins
\* and enters laser_.laserOn
start ==
  /\ At("idle")
  /\ state_ = OPENED
  /\ Cardinality(Created) + corrupted_scan_count_ < MaxStarts
  /\ ctl' = [pc |-> "laserOn", op |-> "start", from |-> state_, ok |-> TRUE]
  /\ UNCHANGED <<drv, acq, calib_called, session_config>>

\* laser_.laserOn() of doStart returns or throws; requestScans is entered
doStart_laserOn ==
  /\ At("laserOn") /\ ctl.op = "start"
  /\ \/ ctl' = [ctl EXCEPT !.pc = "requestScans"] /\ UNCHANGED connect_fail_
     \/ \E m \in Messages : Catch(m)
  /\ UNCHANGED <<state_, port_open, calibrated_, lost_scan_thread_count_, corrupted_scan_count_,
                 scan_thread_, config_, acq, calib_called, session_config>>

\* the status test of doStart without its counter
RequestRejected_noCount ==
  /\ ctl' = [ctl EXCEPT !.pc = "return", !.ok = FALSE]
  /\ UNCHANGED <<corrupted_scan_count_, state_, scan_thread_, thr, connect_fail_>>

\* if (status != 0) of doStart: corrupted_scan_count_++; return
RequestRejected ==
  /\ corrupted_scan_count_' = corrupted_scan_count_ + 1
  /\ ctl' = [ctl EXCEPT !.pc = "return", !.ok = FALSE]
  /\ UNCHANGED <<state_, scan_thread_, thr, connect_fail_>>

\* laser_.requestScans returns 0 (state_ = RUNNING, the thread is created), returns a
\* non-zero status or throws
doStart_requestScans ==
  /\ At("requestScans")
  /\ \/ /\ state_' = RUNNING
        /\ scan_thread_' = NewThread
        /\ thr' = [thr EXCEPT ![NewThread] = "loop"]
        /\ ctl' = [ctl EXCEPT !.pc = "return"]
        /\ session_config' = config_
        /\ UNCHANGED <<corrupted_scan_count_, connect_fail_>>
     \/ RequestRejected /\ UNCHANGED session_config
     \/ /\ \E m \in Messages : Catch(m)
        /\ UNCHANGED <<state_, scan_thread_, thr, corrupted_scan_count_, session_config>>
  /\ UNCHANGED <<port_open, calibrated_, lost_scan_thread_count_, config_, scan_, calib_called>>

\* a test that lets a stop() made in state Opened through
StopHasNothingToDo_closedOnly == state_ = CLOSED

\* if (state_ != RUNNING) return; of doStop
StopHasNothingToDo == state_ # RUNNING

\* doStop up to timed_join: return at once unless state_ is RUNNING; else state_ = OPENED
\* and the join begins (scan_thread_.reset() at once when the pointer is empty)
doStop ==
  /\ \/ /\ StopHasNothingToDo
        /\ ctl' = [pc |-> "return", op |-> "stop", from |-> state_, ok |-> TRUE]
        /\ UNCHANGED <<state_, scan_thread_, session_config>>
     \/ /\ ~StopHasNothingToDo
        /\ state_' = OPENED
        /\ session_config' = NoConfig
        /\ IF scan_thread_ # NoThread
             THEN ctl' = [pc |-> "timed_join", op |-> "stop", from |-> state_, ok |-> TRUE]
             ELSE ctl' = [pc |-> "return", op |-> "stop", from |-> state_, ok |-> TRUE]
        /\ UNCHANGED scan_thread_
  /\ UNCHANGED <<port_open, calibrated_, lost_scan_thread_count_, corrupted_scan_count_,
                 connect_fail_, config_, acq, calib_called>>

\* stop(): callable in every state
stop ==
  /\ At("idle")
  /\ doStop

\* the join test with its negation dropped
JoinTimedOut_inverted == thr[scan_thread_] \in ThrEndPcs

\* !scan_thread_->timed_join(2000 ms): the bound elapsed and the thread has not ended
JoinTimedOut == thr[scan_thread_] \notin ThrEndPcs

\* timed_join returns; lost_scan_thread_count_++ when it timed out; scan_thread_.reset()
doStop_timed_join ==
  /\ At("timed_join")
  /\ IF JoinTimedOut
       THEN lost_scan_thread_count_' = lost_scan_thread_count_ + 1
       ELSE UNCHANGED lost_scan_thread_count_
  /\ scan_thread_' = NoThread
  /\ ctl' = [ctl EXCEPT !.pc = "return"]
  /\ UNCHANGED <<state_, port_open, calibrated_, corrupted_scan_count_, connect_fail_,
                 config_, acq, calib_called, session_config>>

\* the lifecycle call returns to its caller
Return ==
  /\ At("return")
  /\ ctl' = Idle
  /\ UNCHANGED <<drv, acq, calib_called, session_config>>

\* config_update: config_ = new_config, on the controlling thread between lifecycle calls
config_update ==
  /\ At("idle")
  /\ \E c \in Configs : c # config_ /\ config_' = c
  /\ UNCHANGED <<state_, port_open, calibrated_, lost_scan_thread_count_, corrupted_scan_count_,
                 connect_fail_, scan_thread_, ctl, acq, calib_called, session_config>>

\* ---- the acquisition thread: scanThread ----

ThrAt(t, pc) == ~Terminated /\ thr[t] = pc

\* a loop test that goes on in every state but Closed
LoopTest_notClosed == state_ # CLOSED

\* the test of while (state_ == RUNNING)
LoopTest == state_ = RUNNING

\* while (state_ == RUNNING): enter serviceScan, or leave the loop and enter stopScanning
scanThread_loop(t) ==
  /\ ThrAt(t, "loop") \/ ThrAt(t, "skip")
  /\ thr' = [thr EXCEPT ![t] = IF LoopTest THEN "serviceScan" ELSE "stopScanning"]
  /\ UNCHANGED <<drv, ctl, scan_, calib_called, session_config>>

\* serviceScan returns 0: the frame is in scan_; useScan_(scan_) is entered
FrameArrived(t) ==
  /\ scan_' = [by |-> t, used |-> FALSE]
  /\ thr' = [thr EXCEPT ![t] = "useScan"]
  /\ UNCHANGED drv

\* a status test that counts the failed request as doStart counts a rejected one
StatusNonZero_counted(t) ==
  /\ thr' = [thr EXCEPT ![t] = "stopScanning"]
  /\ corrupted_scan_count_' = corrupted_scan_count_ + 1
  /\ UNCHANGED <<scan_, state_, port_open, calibrated_, lost_scan_thread_count_,
                 connect_fail_, scan_thread_, config_>>

\* if (status != 0): log and break; stopScanning is entered
StatusNonZero(t) ==
  /\ thr' = [thr EXCEPT ![t] = "stopScanning"]
  /\ UNCHANGED <<scan_, drv>>

\* a handler that counts the corrupted frame as doStart counts a rejected request
CorruptedData_counted(t) ==
  /\ thr' = [thr EXCEPT ![t] = "skip"]
  /\ corrupted_scan_count_' = corrupted_scan_count_ + 1
  /\ UNCHANGED <<scan_, state_, port_open, calibrated_, lost_scan_thread_count_,
                 connect_fail_, scan_thread_, config_>>

\* catch (hokuyo::CorruptedDataException &e): log and continue
CorruptedData(t) ==
  /\ thr' = [thr EXCEPT ![t] = "skip"]
  /\ UNCHANGED <<scan_, drv>>

\* catch (hokuyo::Exception& e): log; doClose is entered
FatalFault(t) ==
  /\ thr' = [thr EXCEPT ![t] = "laser_close"]
  /\ UNCHANGED <<scan_, drv>>

\* laser_.serviceScan(scan_) returns 0, returns a non-zero status, throws
\* CorruptedDataException or throws another hokuyo::Exception
scanThread_serviceScan(t) ==
  /\ ThrAt(t, "serviceScan")
  /\ \/ FrameArrived(t)
     \/ StatusNonZero(t)
     \/ CorruptedData(t)
     \/ FatalFault(t)
  /\ UNCHANGED <<ctl, calib_called, session_config>>

\* useScan_(scan_) returns: the callback has read the shared buffer; back to the loop test
scanThread_useScan(t) ==
  /\ ThrAt(t, "useScan")
  /\ scan_' = [scan_ EXCEPT !.used = TRUE]
  /\ thr' = [thr EXCEPT ![t] = "loop"]
  /\ UNCHANGED <<drv, ctl, calib_called, session_config>>

\* doClose on the acquisition thread, called by the handler of hokuyo::Exception;
\* return from scanThread
scanThread_doClose(t) ==
  /\ ThrAt(t, "laser_close")
  /\ doCloseBody
  /\ thr' = [thr EXCEPT ![t] = "returned"]
  /\ UNCHANGED <<calibrated_, lost_scan_thread_count_, corrupted_scan_count_, connect_fail_,
                 scan_thread_, config_, ctl, scan_, calib_called>>

\* laser_.stopScanning() returns (state_ = OPENED; the thread ends) or throws: no handler
\* encloses the call, the exception leaves the thread's body
scanThread_stopScanning(t) ==
  /\ ThrAt(t, "stopScanning")
  /\ \/ /\ state_' = OPENED
        /\ session_config' = NoConfig
        /\ thr' = [thr EXCEPT ![t] = "done"]
     \/ /\ thr' = [thr EXCEPT ![t] = "uncaught"]
        /\ UNCHANGED <<state_, session_config>>
  /\ UNCHANGED <<port_open, calibrated_, lost_scan_thread_count_, corrupted_scan_count_,
                 connect_fail_, scan_thread_, config_, ctl, scan_, calib_called>>

scanThread(t) ==
  \/ scanThread_loop(t)
  \/ scanThread_serviceScan(t)
  \/ scanThread_useScan(t)
  \/ scanThread_doClose(t)
  \/ scanThread_stopScanning(t)

Next ==
  \/ open
  \/ doOpen_laser_open
  \/ doOpen_getID
  \/ doOpen_getStatus
  \/ doOpen_laserOn
  \/ doOpen_calcLatency
  \/ close
  \/ doClose
  \/ start
  \/ doStart_laserOn
  \/ doStart_requestScans
  \/ stop
  \/ doStop_timed_join
  \/ Return
  \/ config_update
  \/ \E t \in Threads : scanThread(t)

Spec == Init /\ [][Next]_vars

TypeOK ==
  /\ state_ \in States
  /\ port_open \in BOOLEAN
  /\ calibrated_ \in BOOLEAN
  /\ lost_scan_thread_count_ \in 0..MaxStarts
  /\ corrupted_scan_count_ \in 0..MaxStarts
  /\ connect_fail_ \in Messages \cup {""}
  /\ scan_thread_ \in Threads \cup {NoThread}
  /\ scan_ \in Frames
  /\ config_ \in Configs
  /\ ctl.pc \in CtlPcs
  /\ \A t \in Threads : thr[t] \in ThrPcs
  /\ calib_called \in BOOLEAN
  /\ session_config \in Configs \cup {NoConfig}

\* ---- observations used by the properties ----

LiveThreads == {t \in Threads : Live(t)}

\* t is the only acquisition thread the driver has ever created
OnlyThread(t) == Created = {t}

\* the frame the latest successful serviceScan call of thread t put into scan_, not yet
\* passed to useScan_
FreshFrameOf(t) == [by |-> t, used |-> FALSE]

\* ---- C1 ----
\* C1: at the step that ends a lifecycle call, the state is the one the transition table
\* gives for the operation, its from-state and its outcome, and the state is always one
\* of Closed, Opened, Running.
C1_StateAtReturnFollowsTable ==
  [][LET TableState(op, from, ok, s) ==
           CASE op = "open"  -> s = (IF ok THEN OPENED ELSE CLOSED)
             [] op = "close" -> s = CLOSED
             [] op = "start" -> IF ok THEN s = RUNNING ELSE s \in {OPENED, CLOSED}
             [] op = "stop"  -> s = (IF from = RUNNING THEN OPENED ELSE from)
             [] OTHER        -> TRUE
     IN  /\ state_' \in States
         /\ (ctl.pc # "return" /\ ctl'.pc = "return")
              => TableState(ctl'.op, ctl'.from, ctl'.ok, state_')]_vars

\* ---- C2 ----
\* C2: between lifecycle calls, the device handle is open if and only if the state is
\* Opened or Running.
C2_HandleOpenIffOpenedOrRunning ==
  ctl.pc = "idle" => (port_open <=> state_ \in {OPENED, RUNNING})

\* ---- C3 ----
\* C3: at most one acquisition thread is live at any instant.
C3_AtMostOneAcquisitionThread == Cardinality(LiveThreads) <= 1

\* ---- C4 ----
\* a call of laser_.calcLatency begins
CalcLatencyBegins == ctl.pc # "calcLatency" /\ ctl'.pc = "calcLatency"

C5_NoConcurrentDeviceCalls ==
  ~(ctl.pc \in CtlDevicePcs /\ \E t \in Threads : thr[t] \in ThrDevicePcs)

\* ---- C6 ----
\* C6: a session whose requests return frames and then fail with a fault other than
\* corrupted data. Every frame a request returns is passed to the callback, and the
\* callback is entered only with a frame just returned; in a session with a single
\* acquisition thread the callback receives that thread's own frame, not yet passed on.
\* The fault passes nothing to the callback. The thread then closes the handle, sets the
\* state to Closed and returns, and never requests or delivers again.
C6_FramesThenFatalFault ==
  [][\A t \in Threads :
       /\ (thr[t] = "serviceScan" /\ scan_' = FreshFrameOf(t)) => thr'[t] = "useScan"
       /\ (thr[t] # "useScan" /\ thr'[t] = "useScan")
            => (thr[t] = "serviceScan" /\ scan_' = FreshFrameOf(t))
       /\ (thr[t] = "useScan" /\ thr'[t] # "useScan")
            => /\ (OnlyThread(t) => scan_ = FreshFrameOf(t))
               /\ scan_' = [scan_ EXCEPT !.used = TRUE]
       /\ (thr[t] = "serviceScan" /\ thr'[t] = "laser_close")
            => UNCHANGED <<scan_, state_, port_open>>
       /\ (thr[t] = "laser_close" /\ thr'[t] # "laser_close")
            => (thr'[t] = "returned" /\ state_' = CLOSED /\ ~port_open')
       /\ (thr[t] = "returned" => thr'[t] = "returned")]_vars

\* the only acquisition thread has delivered a frame, met the fault, closed the handle
\* and returned
C6_Witness ==
  /\ OnlyThread(1)
  /\ thr[1] = "returned"
  /\ scan_ = [by |-> 1, used |-> TRUE]
  /\ scan_thread_ = 1
  /\ state_ = CLOSED
  /\ ~port_open
  /\ ctl.pc = "idle"

\* ---- C7 ----
\* C7: start() whose streaming request returns a non-zero status adds exactly one to the
\* corrupted-scan counter, creates no acquisition thread, leaves the state, the handle,
\* the lost-thread counter and the failure message as they were; with the handle open
\* the state is Opened and the handle stays open.
C7_RejectedStart ==
  [][(ctl.pc = "requestScans" /\ ctl'.pc = "return" /\ ~ctl'.ok)
       => /\ corrupted_scan_count_' = corrupted_scan_count_ + 1
          /\ UNCHANGED <<state_, lost_scan_thread_count_, connect_fail_, port_open,
                         scan_thread_, thr>>
          /\ (port_open => (state_' = OPENED /\ port_open'))]_vars

\* start() has returned after a rejected request on an opened driver that never ran
C7_Witness ==
  /\ ctl.pc = "return"
  /\ ctl.op = "start"
  /\ ~ctl.ok
  /\ state_ = OPENED
  /\ port_open
  /\ corrupted_scan_count_ = 1
  /\ Created = {}

\* ---- C8 ----
\* stop() is called
StopCalled == ctl.pc = "idle" /\ ctl'.op = "stop" /\ ctl'.pc # "idle"

\* C8: stop() in Running sets the state to Opened and waits for the thread; the wait can
\* always end; when it ends with the thread still inside its frame request, stop()
\* returns, the lost-thread counter has grown by exactly one, the thread handle is
\* released, the thread is not touched, and the state is Opened when that thread is the
\* only one the driver created.
C8_StopWithStuckThread ==
  /\ []((ctl.pc = "timed_join" /\ ~Terminated) => ENABLED doStop_timed_join)
  /\ [][((StopCalled /\ state_ = RUNNING)
             => /\ state_' = OPENED
                /\ ctl'.pc = "timed_join"
                /\ scan_thread_' = scan_thread_)
        /\
         ((ctl.pc = "timed_join" /\ ctl'.pc # "timed_join"
             /\ thr[scan_thread_] = "serviceScan")
             => /\ ctl'.pc = "return"
                /\ lost_scan_thread_count_' = lost_scan_thread_count_ + 1
                /\ scan_thread_' = NoThread
                /\ UNCHANGED <<state_, thr>>
                /\ (OnlyThread(scan_thread_) => state_' = OPENED))]_vars

\* stop() has returned while the only acquisition thread is still inside serviceScan
C8_Witness ==
  /\ ctl.pc = "return"
  /\ ctl.op = "stop"
  /\ ctl.from = RUNNING
  /\ OnlyThread(1)
  /\ thr[1] = "serviceScan"
  /\ lost_scan_thread_count_ = 1
  /\ state_ = OPENED
  /\ scan_thread_ = NoThread

\* ---- C9 ----
\* C9: stop() called when the state is not Running returns at once and changes nothing:
\* state, counters, failure message, device handle, thread handle, calibration flag,
\* acquisition threads and frame buffer are as before.
C9_StopNotRunningIsNoOp ==
  [][(StopCalled /\ state_ # RUNNING)
       => /\ ctl'.pc = "return"
          /\ ctl'.from = state_
          /\ UNCHANGED <<drv, acq>>]_vars

\* stop() has returned from a call made in Opened
C9_Witness ==
  /\ ctl.pc = "return"
  /\ ctl.op = "stop"
  /\ ctl.from = OPENED
  /\ state_ = OPENED
  /\ port_open

\* ---- C10 ----
\* C10: a corrupted-data fault of a frame request passes nothing to the callback and
\* changes no state, counter, handle or message; if the state is still Running the next
\* step of the thread is another frame request; a frame returned by a request is passed
\* to the callback.
C10_CorruptedFrameSkipped ==
  [][\A t \in Threads :
       /\ (thr[t] = "serviceScan" /\ thr'[t] = "skip") => UNCHANGED <<drv, scan_, ctl>>
       /\ (thr[t] = "skip" /\ thr'[t] # "skip")
            => /\ thr'[t] = (IF state_ = RUNNING THEN "serviceScan" ELSE "stopScanning")
               /\ UNCHANGED <<drv, scan_>>
       /\ (thr[t] = "serviceScan" /\ thr'[t] = "useScan") => scan_' = FreshFrameOf(t)
       /\ (thr'[t] = "useScan" => thr[t] \in {"serviceScan", "useScan"})]_vars

\* the thread has delivered a frame and then skipped a corrupted one, still Running
C10_Witness ==
  /\ thr[1] = "skip"
  /\ scan_ = [by |-> 1, used |-> TRUE]
  /\ state_ = RUNNING
  /\ port_open
  /\ corrupted_scan_count_ = 0
  /\ lost_scan_thread_count_ = 0

\* ---- C11 ----
\* the frame identifier HokuyoNode::publishScan, the useScan_ callback, puts into the
\* message it publishes: read from the driver's config_ while the callback runs
publishScan_frame_id == config_.frame_id

\* C11: a frame delivered during a Running session carries the configuration that was
\* active at the start() which began the session: when the callback of the session's only
\* acquisition thread returns, the frame identifier it published is the one of the
\* session's snapshot, whatever config_update did in between.
C11_DeliveryUsesSessionSnapshot ==
  [][\A t \in Threads :
       (thr[t] = "useScan" /\ thr'[t] # "useScan" /\ OnlyThread(t)
          /\ session_config # NoConfig)
         => publishScan_frame_id = session_config.frame_id]_vars

\* ---- C12 ----
\* C12: no device fault leaves a lifecycle call or the body of an acquisition thread:
\* every position of the controlling thread is one of doOpen, doClose, doStart, doStop or
\* their return, and no acquisition thread is ever left by an exception.
C12_NoFaultEscapes ==
  /\ ctl.pc \in CtlPcs
  /\ \A t \in Threads : thr[t] # "uncaught"

\* ---- C13 ----
\* the acquisition threads that are inside the callback useScan_
InCallback == {t \in Threads : thr[t] = "useScan"}

\* C13: the callback never runs in two threads at once, and the frame a running callback
\* was given is the one its thread's request returned, not overwritten by another frame
\* before the callback has finished with it. (The controlling thread has no position
\* inside useScan_.)
C13_CallbackOneAtATimeInOrder ==
  /\ Cardinality(InCallback) <= 1
  /\ \A t \in InCallback : scan_ = FreshFrameOf(t)

\* ---- C14 ----
\* C14: whenever the controlling thread is not inside start() or stop(), an acquisition
\* thread is alive if and only if the state is Running.
C14_ThreadAliveIffRunning ==
  ctl.op \notin {"start", "stop"} => (LiveThreads # {} <=> state_ = RUNNING)

\* ---- C15 ----
\* the step by which acquisition thread t ends
ThreadEnds(t) == thr[t] \in ThrLivePcs /\ thr'[t] \notin ThrLivePcs

\* C15: whatever made the loop end, an acquisition thread ends from its emission-off
\* call: the step that ends the thread is the return (or the fault) of stopScanning.
C15_EmissionOffBeforeThreadEnds ==
  [][\A t \in Threads : ThreadEnds(t) => thr[t] = "stopScanning"]_vars

\* ---- C16 ----
\* C16: an acquisition thread never changes the state from Closed to Opened: a step of
\* an acquisition thread taken in state Closed leaves the state Closed.
C16_ThreadLeavesClosedAlone ==
  [][\A t \in Threads :
       (thr'[t] # thr[t] /\ thr[t] # "none" /\ state_ = CLOSED) => state_' = CLOSED]_vars

\* ---- C17 ----
\* the positions of doOpen inside a device operation of the open sequence
OpenSequencePcs == {"laser_open", "getID", "getStatus", "laserOn", "calcLatency"}

\* a device operation of the open sequence raises a fault: the handler of doOpen is
\* entered, which begins doClose
OpenFaults == ctl.op = "open" /\ ctl.pc \in OpenSequencePcs /\ ctl'.pc = "laser_close"

\* C17: a fault of any device operation of the open sequence marks the open() as failed,
\* stores the fault's message as the failure string and changes neither the state nor the
\* calibration flag; the close that follows ends, whether laser_.close() faults or not,
\* with open() returning in state Closed with the handle closed, the failure string and
\* the calibration flag kept. The calibration flag changes only in the step that
\* completes a successful open().
C17_OpenFailure ==
  [][/\ OpenFaults
          => /\ ~ctl'.ok
             /\ connect_fail_' \in Messages
             /\ UNCHANGED <<state_, calibrated_>>
     /\ (ctl.op = "open" /\ ctl.pc = "laser_close" /\ ctl'.pc # "laser_close")
          => /\ ctl'.pc = "return" /\ ~ctl'.ok
             /\ state_' = CLOSED
             /\ ~port_open'
             /\ UNCHANGED <<connect_fail_, calibrated_>>
     /\ calibrated_' # calibrated_
          => (ctl.op = "open" /\ ctl'.pc = "return" /\ ctl'.ok)]_vars

\* open() has returned after a fault of the calibration: Closed, handle closed, message
\* stored, calibration flag unset
C17_Witness ==
  /\ ctl.pc = "return"
  /\ ctl.op = "open"
  /\ ~ctl.ok
  /\ state_ = CLOSED
  /\ ~port_open
  /\ connect_fail_ \in Messages
  /\ calib_called
  /\ ~calibrated_

\* ---- C18 ----
\* C18: whenever open() returns with success, the failure string is empty.
C18_SuccessfulOpenClearsFailure ==
  (ctl.pc = "return" /\ ctl.op = "open" /\ ctl.ok) => connect_fail_ = ""

\* ---- C19 ----
\* C19: a frame request of the loop that returns a non-zero status passes nothing to the
\* callback and changes no field of the driver (counters, handle, state); the thread goes
\* to the emission-off call, and when that call returns the thread sets the state to
\* Opened, leaves the handle and the counters alone and ends: with a single acquisition
\* thread no thread is live any more.
C19_NonZeroStatusInLoop ==
  [][\A t \in Threads :
       /\ (thr[t] = "serviceScan" /\ thr'[t] = "stopScanning")
            => UNCHANGED <<drv, scan_, ctl>>
       /\ (thr[t] = "stopScanning" /\ thr'[t] # "stopScanning")
            => /\ thr'[t] \in {"done", "uncaught"}
               /\ UNCHANGED <<port_open, lost_scan_thread_count_, corrupted_scan_count_,
                              connect_fail_, scan_, ctl>>
               /\ thr'[t] = "done" => (state_' = OPENED /\ (OnlyThread(t) => LiveThreads' = {}))
       /\ (thr[t] # "stopScanning" /\ thr'[t] = "stopScanning")
            => thr[t] \in {"serviceScan", "loop", "skip"}]_vars

\* the only acquisition thread has ended by itself through the emission-off call, no
\* frame delivered, stop() never having joined it: Opened, handle open, counters zero
C19_Witness ==
  /\ OnlyThread(1)
  /\ thr[1] = "done"
  /\ scan_thread_ = 1
  /\ scan_.by = NoThread
  /\ state_ = OPENED
  /\ port_open
  /\ corrupted_scan_count_ = 0
  /\ lost_scan_thread_count_ = 0
  /\ ctl.pc = "idle"

\* ---- C20 ----
\* C20: once stop() has written Opened, the state is not Running again before a start()
\* (only doStart writes RUNNING). In a state other than Running an acquisition thread
\* begins no frame request: from the loop test it goes to the emission-off call and from
\* there it ends; the callback is entered only on the return of a frame request, so at
\* most once more, for the request in flight; and no step of the thread outside a device
\* call or the callback waits for anything.
C20_NoNewRequestAfterStop ==
  /\ [](\A t \in Threads :
          (~Terminated /\ thr[t] \in {"loop", "skip"}) => ENABLED scanThread_loop(t))
  /\ [][/\ (state_ # RUNNING /\ state_' = RUNNING)
             => (ctl.op = "start" /\ ctl.pc = "requestScans")
        /\ \A t \in Threads :
             /\ (thr[t] # "serviceScan" /\ thr'[t] = "serviceScan")
                  => (state_ = RUNNING /\ thr[t] \in {"loop", "skip"})
             /\ (thr[t] \in {"loop", "skip"} /\ thr'[t] # thr[t] /\ state_ # RUNNING)
                  => thr'[t] = "stopScanning"
             /\ (thr[t] # "useScan" /\ thr'[t] = "useScan") => thr[t] = "serviceScan"
             /\ (thr[t] = "stopScanning" /\ thr'[t] # thr[t]) => thr'[t] \notin ThrLivePcs]_vars

\* stop() has written Opened and waits in timed_join; the only acquisition thread has
\* delivered its frame, found the state not Running and is in the emission-off call
C20_Witness ==
  /\ ctl.pc = "timed_join"
  /\ ctl.op = "stop"
  /\ state_ = OPENED
  /\ OnlyThread(1)
  /\ thr[1] = "stopScanning"
  /\ scan_ = [by |-> 1, used |-> TRUE]
====
